---- MODULE Spec2Model ----
(***************************************************************************)
(* Model of src/controllers/user.controller.js: the session flow          *)
(* (register, login, logout, refresh, account update) over the user       *)
(* collection.  Every request handler is cut at its awaits on the store:  *)
(* one action per store round trip, so that two requests in flight        *)
(* interleave exactly where the event loop lets them.                     *)
(***************************************************************************)
EXTENDS Integers, Sequences, FiniteSets, TLC

VARIABLES
    users,      \* the user collection: sequence of documents, _id = index
    now,        \* the clock jwt reads (seconds)
    reqs,       \* the requests in flight, one per handler slot
    resp,       \* the response the last step sent (NoResp when it sent none)
    revoked,    \* the token logout last found persisted, until the account gets a new one
    subscriptions,  \* the subscription collection: sequence of edges
    videos,         \* the video collection: sequence of documents
    watchHistory    \* per account: the watchHistory field, a sequence of video ids

\* the collections these handlers only read
readOnly == <<subscriptions, videos, watchHistory>>

vars == <<users, now, reqs, resp, revoked, subscriptions, videos, watchHistory>>

-----------------------------------------------------------------------------
(* Bounds *)

MaxTime == 1
MaxUsers == 2
RefreshTokenExpiry == 2
MaxEdges == 2
MaxVideos == 2
MaxHistory == 2

Slots == {1, 2}

-----------------------------------------------------------------------------
(* Values *)

UNDEF == "<undefined>"

NoToken == [kind |-> "undefined", sub |-> 0, iat |-> 0]
NullToken == [kind |-> "null", sub |-> 0, iat |-> 0]
Garbage == [kind |-> "malformed", sub |-> 0, iat |-> 0]

NoView == [_id |-> 0]

\* String.prototype.trim on the strings the requests carry
Trim(s) == IF s = " " THEN "" ELSE s

\* String.prototype.toLowerCase on the handles the requests carry
ToLowerCase(s) ==
    CASE s = "Alice" -> "alice"
      [] s = "Bob" -> "bob"
      [] OTHER -> s

\* the password hasher: one-way hash, verify(candidate, hash)
HashPassword(p) == <<"hash", p>>
isPasswordCorrect(doc, candidate) == doc.password = HashPassword(candidate)

\* user.generateRefreshToken / user.generateAccessToken: a signed token is a
\* function of the identity, the signing secret (kind) and the issue time
generateRefreshToken(id) == [kind |-> "refresh", sub |-> id, iat |-> now]
generateAccessToken(id) == [kind |-> "access", sub |-> id, iat |-> now]

\* jwt.verify(token, REFRESH_TOKEN_SECRET): signature, structure, expiry
jwtVerify(token) ==
    /\ token.kind = "refresh"
    /\ now < token.iat + RefreshTokenExpiry

\* a truthy JavaScript value among the tokens a request can carry
Truthy(token) == token.kind \notin {"undefined", "null"}

Ids == 1..Len(users)

\* Query.select("-a -b"): the document without the excluded paths
Select(doc, excluded) == [f \in (DOMAIN doc) \ excluded |-> doc[f]]

\* (a findOne that looks at the email alone)
MatchingEmailOnly(email, userName) ==
    {i \in Ids : email # UNDEF /\ users[i].email = email}

\* User.findOne({$or: [{email}, {userName}]}): the documents the filter matches
\* (an undefined value in a filter matches no document that has the field)
Matching(email, userName) ==
    {i \in Ids : \/ (email # UNDEF /\ users[i].email = email)
                 \/ (userName # UNDEF /\ users[i].userName = userName)}

\* User.create: the stored document (the password is hashed on save)
NewUser(id, fullName, email, userName, password, avatar) ==
    [ _id |-> id,
      userName |-> userName,
      email |-> email,
      fullName |-> fullName,
      avatar |-> avatar,
      password |-> HashPassword(password),
      refreshToken |-> NoToken ]

-----------------------------------------------------------------------------
(* Requests and responses *)

\* a handler slot: the request's inputs that the rest of the handler reads,
\* its locals, and what held when it arrived (for the properties)
Idle ==
    [ op |-> "idle", pc |-> "idle",
      userName |-> UNDEF, email |-> UNDEF, fullName |-> UNDEF, password |-> UNDEF,
      oldPassword |-> UNDEF,
      token |-> NoToken, user |-> 0, channel |-> 0,
      accessToken |-> NoToken, refreshToken |-> NoToken,
      case |-> "", afterLogout |-> FALSE, rival |-> FALSE,
      uploaded |-> "pending", created |-> 0,
      failure |-> "none", saved |-> FALSE ]

NoResp ==
    [ slot |-> 0, op |-> "none", status |-> 0, user |-> 0, token |-> NoToken,
      password |-> UNDEF, oldPassword |-> UNDEF, channel |-> 0,
      data |-> NoView, accessToken |-> NoToken, refreshToken |-> NoToken,
      case |-> "", afterLogout |-> FALSE, rival |-> FALSE,
      uploaded |-> "pending", created |-> 0,
      failure |-> "none", saved |-> FALSE ]

\* throw: the handler ends and the error reaches the caller with this status
\* (an ApiError carries its own; any other exception is answered with 500)
Fail(s, r, code) ==
    [NoResp EXCEPT !.slot = s, !.op = r.op, !.status = code, !.case = r.case,
                   !.afterLogout = r.afterLogout, !.rival = r.rival,
                   !.uploaded = r.uploaded, !.created = r.created,
                   !.failure = r.failure, !.saved = r.saved, !.channel = r.channel]

\* res.status(code).json(...) with the token pair of lines 143 and 209
Answer(s, r, code, data) ==
    [NoResp EXCEPT !.slot = s, !.op = r.op, !.status = code, !.case = r.case,
                   !.afterLogout = r.afterLogout, !.rival = r.rival,
                   !.uploaded = r.uploaded, !.created = r.created,
                   !.failure = r.failure, !.saved = r.saved, !.channel = r.channel,
                   !.user = r.user, !.token = r.token, !.data = data,
                   !.password = r.password, !.oldPassword = r.oldPassword,
                   !.accessToken = r.accessToken, !.refreshToken = r.refreshToken]

-----------------------------------------------------------------------------
(* The accounts the session flow runs over *)

InitUsers ==
    << NewUser(1, "A", "a@x", "alice", "p1", "url"),
       NewUser(2, "B", "b@x", "bob", "p2", "url") >>

Init ==
    /\ users = InitUsers
    /\ now = 0
    /\ reqs = [s \in Slots |-> Idle]
    /\ resp = NoResp
    /\ revoked = NoToken
    /\ subscriptions = << >>
    /\ videos = << >>
    /\ watchHistory = << >>

\* the clock advances between any two steps
Tick ==
    /\ now < MaxTime
    /\ now' = now + 1
    /\ resp' = NoResp
    /\ UNCHANGED <<users, reqs, revoked, readOnly>>

-----------------------------------------------------------------------------
(* loginUser *)

LoginEmails == {UNDEF, "a@x", "z@x"}
LoginUserNames == {UNDEF, "bob"}
Passwords == {"p1", "p2"}

\* how the credentials stand against the store when the request arrives
LoginCase(email, userName, password) ==
    LET m == {i \in Ids : users[i].email = email \/ users[i].userName = userName}
    IN  IF email = UNDEF /\ userName = UNDEF THEN "noidentifier"
        ELSE IF m = {} THEN "nomatch"
        ELSE IF \A i \in m : users[i].password # HashPassword(password) THEN "badpassword"
        ELSE IF \A i \in m : users[i].password = HashPassword(password) THEN "goodpassword"
        ELSE "mixed"

\* lines 104-124: validation, findOne, password check
LoginFindOne(s, email, userName, password) ==
    /\ reqs[s].op = "idle"
    /\ LET r == [Idle EXCEPT !.op = "login", !.case = LoginCase(email, userName, password)]
       IN  IF email = UNDEF /\ userName = UNDEF
           THEN /\ resp' = Fail(s, r, 400)
                /\ UNCHANGED reqs
           ELSE IF Matching(email, userName) = {}
           THEN /\ resp' = Fail(s, r, 404)
                /\ UNCHANGED reqs
           ELSE \E u \in Matching(email, userName) :
                   IF ~isPasswordCorrect(users[u], password)
                   THEN /\ resp' = Fail(s, r, 401)
                        /\ UNCHANGED reqs
                   ELSE /\ reqs' = [reqs EXCEPT ![s] = [r EXCEPT !.user = u, !.pc = "generate"]]
                        /\ resp' = NoResp
    /\ UNCHANGED <<users, now, revoked, readOnly>>

\* what can go wrong inside generateAccessAndRefreshToken's try block
GenerateFailures == {"none", "lookup", "issue"}
SaveFailures == {"none", "persist"}

\* (a catch that swallows the error and answers as if the pair existed)
GenerateFailedSwallowed(s, r) == Answer(s, r, 200, NoView)

\* lines 21-23: any error inside the try becomes ApiError(500), which
\* loginUser lets through and refreshAccessToken's own catch (lines 213-215)
\* turns into 401
GenerateFailed(s, r) == Fail(s, r, IF r.op = "refresh" THEN 401 ELSE 500)

\* (a save that stores the short-lived token in the slot)
ModifiedPathSaveAccess(doc, token) ==
    [doc EXCEPT !.refreshToken = [token EXCEPT !.kind = "access"]]

\* (a save that also writes the password path, from a value never set)
ModifiedPathSaveRehash(doc, token) ==
    [doc EXCEPT !.refreshToken = token, !.password = HashPassword(UNDEF)]

\* lines 16-17: user.refreshToken = refreshToken; user.save() writes the
\* modified path of the stored document and nothing else
ModifiedPathSave(doc, token) == [doc EXCEPT !.refreshToken = token]

\* lines 12-16 (generateAccessAndRefreshToken): findById, sign both tokens
GenerateTokens(s, failure) ==
    /\ reqs[s].pc = "generate"
    /\ LET r == [reqs[s] EXCEPT !.failure = failure]
       IN  IF failure # "none" \/ r.user \notin Ids
           THEN /\ resp' = GenerateFailed(s, r)
                /\ reqs' = [reqs EXCEPT ![s] = Idle]
           ELSE /\ reqs' = [reqs EXCEPT ![s] =
                       [r EXCEPT !.accessToken = generateAccessToken(r.user),
                                 !.refreshToken = generateRefreshToken(r.user),
                                 !.pc = "save"]]
                /\ resp' = NoResp
    /\ UNCHANGED <<users, now, revoked, readOnly>>

\* line 17 (user.save), then the caller resumes: refreshAccessToken answers
\* (lines 203-212), loginUser goes on to line 130; a save that is rejected
\* has written nothing and ends in the catch of line 21
SaveRefreshToken(s, failure) ==
    /\ reqs[s].pc = "save"
    /\ LET r == [reqs[s] EXCEPT !.failure = failure, !.saved = (failure = "none")]
       IN  IF failure # "none"
           THEN /\ resp' = GenerateFailed(s, r)
                /\ reqs' = [reqs EXCEPT ![s] = Idle]
                /\ UNCHANGED <<users, revoked>>
           ELSE /\ users' = [users EXCEPT ![r.user] = ModifiedPathSave(@, r.refreshToken)]
                /\ revoked' = IF revoked.sub = r.user THEN NoToken ELSE revoked
                /\ IF r.op = "refresh"
                   THEN /\ resp' = Answer(s, r, 200, NoView)
                        /\ reqs' = [o \in Slots |->
                                      IF o = s THEN Idle
                                      ELSE IF reqs[o].op = "refresh" /\ reqs[o].token = r.token
                                           THEN [reqs[o] EXCEPT !.rival = TRUE]
                                           ELSE reqs[o]]
                   ELSE /\ reqs' = [reqs EXCEPT ![s] = [r EXCEPT !.pc = "select"]]
                        /\ resp' = NoResp
    /\ UNCHANGED <<now, readOnly>>

\* lines 130-147: read the account back, strip fields, answer
LoginRespond(s) ==
    /\ reqs[s].pc = "select"
    /\ reqs[s].op = "login"
    /\ LET r == reqs[s]
       IN  /\ resp' = Answer(s, r, 200, Select(users[r.user], {"passworrd", "refreshToken"}))
           /\ reqs' = [reqs EXCEPT ![s] = Idle]
    /\ UNCHANGED <<users, now, revoked, readOnly>>

-----------------------------------------------------------------------------
(* logoutUser *)

\* lines 152-172.  The update sets refreshToken to undefined: the store
\* driver either drops an undefined key from $set (the update changes
\* nothing) or writes it as null, depending on the driver version, so both
\* are outcomes.  The return statement then calls options.json, which is
\* not a function: the handler throws after the update.
LogoutUser(s, uid, dropsUndefined) ==
    /\ reqs[s].op = "idle"
    /\ uid \in Ids
    /\ users' = IF dropsUndefined THEN users
                ELSE [users EXCEPT ![uid].refreshToken = NullToken]
    /\ revoked' = IF Truthy(users[uid].refreshToken) THEN users[uid].refreshToken
                  ELSE IF revoked.sub = uid THEN NoToken ELSE revoked
    /\ resp' = [Fail(s, [Idle EXCEPT !.op = "logout"], 500) EXCEPT !.user = uid]
    /\ UNCHANGED <<reqs, now, readOnly>>

-----------------------------------------------------------------------------
(* refreshAccessToken *)

\* how the presented token stands against the store when the request arrives
RefreshCase(token) ==
    IF token.kind \in {"undefined", "null"} THEN "absent"
    ELSE IF token.kind # "refresh" \/ now >= token.iat + RefreshTokenExpiry
            \/ token.sub \notin Ids THEN "invalid"
    ELSE IF token # users[token.sub].refreshToken THEN "stale"
    ELSE "current"

\* the values req.cookie can have: Express defines req.cookies, not
\* req.cookie, so the property is undefined unless some middleware adds it
Cookies == {"undefined", "object"}

\* what a caller can present: nothing, junk, or a token the server signed
\* earlier (one of them long ago), except one that a login has saved and not
\* yet answered with
Presentable ==
    {NoToken, Garbage} \cup
    ({[kind |-> "refresh", sub |-> i, iat |-> t] : i \in Ids, t \in (0..now) \cup {-RefreshTokenExpiry}}
        \ {reqs[o].refreshToken : o \in {x \in Slots : reqs[x].pc = "select"}})

\* lines 177-194: read the token, verify, findById, compare
RefreshVerify(s, cookie, token) ==
    /\ reqs[s].op = "idle"
    /\ LET r == [Idle EXCEPT !.op = "refresh", !.token = token,
                             !.case = RefreshCase(token),
                             !.afterLogout = (Truthy(token) /\ revoked = token)]
       IN  IF cookie = "undefined" THEN /\ resp' = Fail(s, r, 500)
                                        /\ UNCHANGED reqs
           ELSE IF ~Truthy(token) THEN /\ resp' = Fail(s, r, 401)
                                       /\ UNCHANGED reqs
           ELSE IF ~jwtVerify(token) THEN /\ resp' = Fail(s, r, 401)
                                          /\ UNCHANGED reqs
           ELSE IF token.sub \notin Ids THEN /\ resp' = Fail(s, r, 401)
                                             /\ UNCHANGED reqs
           ELSE IF token # users[token.sub].refreshToken
                THEN /\ resp' = Fail(s, r, 401)
                     /\ UNCHANGED reqs
           ELSE /\ reqs' = [reqs EXCEPT ![s] = [r EXCEPT !.user = token.sub, !.pc = "generate"]]
                /\ resp' = NoResp
    /\ UNCHANGED <<users, now, revoked, readOnly>>

-----------------------------------------------------------------------------
(* registerUser *)

RegisterUserNames == {"alice", "Alice", "bob", " "}
RegisterEmails == {"a@x", "b@x"}
RegisterFullNames == {"A"}
RegisterPasswords == {"p1"}

\* req.files: absent, present without an avatar entry, present with one
Files == {"undefined", "noAvatar", "avatar"}

\* how the input stands against the store when the request arrives
RegisterCase(fullName, email, userName, password, files) ==
    IF \E f \in {fullName, email, userName, password} : Trim(f) = "" THEN "blank"
    ELSE IF \E i \in Ids : \/ ToLowerCase(users[i].userName) = ToLowerCase(userName)
                            \/ users[i].email = email
         THEN "duplicate"
    ELSE IF files # "avatar" THEN "noavatar"
    ELSE "fresh"

\* (the projection with the path misspelt, as on line 130)
CreatedUserMisspelt(doc) == Select(doc, {"passworrd", "refreshToken"})

\* lines 75-77: the created account without the excluded paths
CreatedUser(doc) == Select(doc, {"password", "refreshToken"})

\* lines 30-54: validation, findOne, the avatar path
RegisterFindOne(s, fullName, email, userName, password, files) ==
    /\ reqs[s].op = "idle"
    /\ LET r == [Idle EXCEPT !.op = "register", !.fullName = fullName, !.email = email,
                             !.userName = userName, !.password = password,
                             !.case = RegisterCase(fullName, email, userName, password, files)]
       IN  IF \E f \in {fullName, email, userName, password} : f # UNDEF /\ Trim(f) = ""
           THEN /\ resp' = Fail(s, r, 400)
                /\ UNCHANGED reqs
           ELSE IF Matching(email, userName) # {}
           THEN /\ resp' = Fail(s, r, 409)
                /\ UNCHANGED reqs
           ELSE IF files = "noAvatar"
           THEN /\ resp' = Fail(s, r, 500)
                /\ UNCHANGED reqs
           ELSE IF files = "undefined"
           THEN /\ resp' = Fail(s, r, 400)
                /\ UNCHANGED reqs
           ELSE /\ reqs' = [reqs EXCEPT ![s] = [r EXCEPT !.pc = "upload"]]
                /\ resp' = NoResp
    /\ UNCHANGED <<users, now, revoked, readOnly>>

\* lines 58-72: the upload's result, then User.create
RegisterCreate(s, uploaded) ==
    /\ reqs[s].pc = "upload"
    /\ LET r == [reqs[s] EXCEPT !.uploaded = IF uploaded THEN "yes" ELSE "no"]
       IN  IF ~uploaded
           THEN /\ resp' = Fail(s, r, 400)
                /\ reqs' = [reqs EXCEPT ![s] = Idle]
                /\ UNCHANGED users
           ELSE /\ Len(users) < MaxUsers
                /\ users' = Append(users, NewUser(Len(users) + 1, r.fullName, r.email,
                                                 ToLowerCase(r.userName), r.password, "url"))
                /\ reqs' = [reqs EXCEPT ![s] =
                               [r EXCEPT !.pc = "select", !.user = Len(users) + 1,
                                         !.created = Len(users') - Len(users)]]
                /\ resp' = NoResp
    /\ UNCHANGED <<now, revoked, readOnly>>

\* lines 75-91: read the account back without the excluded paths, answer
RegisterRespond(s) ==
    /\ reqs[s].pc = "select"
    /\ reqs[s].op = "register"
    /\ LET r == reqs[s]
       IN  IF r.user \notin Ids
           THEN resp' = Fail(s, r, 500)
           ELSE resp' = Answer(s, r, 201, CreatedUser(users[r.user]))
    /\ reqs' = [reqs EXCEPT ![s] = Idle]
    /\ UNCHANGED <<users, now, revoked, readOnly>>

-----------------------------------------------------------------------------
(* updateAccountDetails *)

UpdateUserNames == {"alice", "Alice", "bob"}
UpdateEmails == {UNDEF, "a@x", "b@x"}

\* lines 250-276: one findByIdAndUpdate with $set of the three fields
UpdateAccountDetails(s, uid, userName, email, fullName) ==
    /\ reqs[s].op = "idle"
    /\ uid \in Ids
    /\ LET r == [Idle EXCEPT !.op = "update", !.user = uid]
       IN  IF \E f \in {userName, email, fullName} : f \in {UNDEF, ""}
           THEN /\ resp' = Fail(s, r, 400)
                /\ UNCHANGED users
           ELSE /\ users' = [users EXCEPT ![uid].userName = userName,
                                          ![uid].fullName = fullName,
                                          ![uid].email = email]
                /\ resp' = Answer(s, r, 200, Select(users'[uid], {"password"}))
    /\ UNCHANGED <<reqs, now, revoked, readOnly>>

-----------------------------------------------------------------------------
(* changeCurrentPassword *)

NewPasswords == {"p1", "p2"}

\* (a password change that also drops the session)
SetPasswordRevoking(doc, newPassword) ==
    [doc EXCEPT !.password = HashPassword(newPassword), !.refreshToken = NullToken]

\* (a save that leaves the stored password as it was)
SetPasswordSkipped(doc, newPassword) == doc

\* lines 228-229: user.password = newPassword; user.save() writes the
\* modified path, hashed
SetPassword(doc, newPassword) == [doc EXCEPT !.password = HashPassword(newPassword)]

\* lines 219-226: findById, compare the old password
ChangePasswordFind(s, uid, oldPassword, newPassword) ==
    /\ reqs[s].op = "idle"
    /\ uid \in Ids
    /\ LET r == [Idle EXCEPT !.op = "changePassword", !.user = uid,
                             !.oldPassword = oldPassword, !.password = newPassword,
                             !.case = IF users[uid].password = HashPassword(oldPassword)
                                      THEN "rightold" ELSE "wrongold"]
       IN  IF ~isPasswordCorrect(users[uid], oldPassword)
           THEN /\ resp' = Fail(s, r, 400)
                /\ UNCHANGED reqs
           ELSE /\ reqs' = [reqs EXCEPT ![s] = [r EXCEPT !.pc = "savePassword"]]
                /\ resp' = NoResp
    /\ UNCHANGED <<users, now, revoked, readOnly>>

\* lines 228-233: save the new password, answer
ChangePasswordSave(s) ==
    /\ reqs[s].pc = "savePassword"
    /\ LET r == reqs[s]
       IN  /\ users' = [users EXCEPT ![r.user] = SetPassword(@, r.password)]
           /\ resp' = Answer(s, r, 200, NoView)
           /\ reqs' = [reqs EXCEPT ![s] = Idle]
    /\ UNCHANGED <<now, revoked, readOnly>>

-----------------------------------------------------------------------------
(* Registration and profile updates, from an empty collection *)

InitReg ==
    /\ users = << >>
    /\ now = 0
    /\ reqs = [s \in Slots |-> Idle]
    /\ resp = NoResp
    /\ revoked = NoToken
    /\ subscriptions = << >>
    /\ videos = << >>
    /\ watchHistory = << >>

NextReg ==
    \/ \E s \in Slots, n \in RegisterFullNames, e \in RegisterEmails,
          u \in RegisterUserNames, p \in RegisterPasswords, f \in Files :
           RegisterFindOne(s, n, e, u, p, f)
    \/ \E s \in Slots, up \in BOOLEAN : RegisterCreate(s, up)
    \/ \E s \in Slots : RegisterRespond(s)
    \/ \E s \in Slots, uid \in Ids, u \in UpdateUserNames, e \in UpdateEmails,
          n \in RegisterFullNames :
           UpdateAccountDetails(s, uid, u, e, n)

SpecReg == InitReg /\ [][NextReg]_vars

-----------------------------------------------------------------------------
(* The session flow over registered accounts *)

Next ==
    \/ Tick
    \/ \E s \in Slots, e \in LoginEmails, u \in LoginUserNames, p \in Passwords :
           LoginFindOne(s, e, u, p)
    \/ \E s \in Slots : GenerateTokens(s, "none")
    \/ \E s \in Slots : SaveRefreshToken(s, "none")
    \/ \E s \in Slots : LoginRespond(s)
    \/ \E s \in Slots, uid \in Ids, d \in BOOLEAN : LogoutUser(s, uid, d)
    \/ \E s \in Slots, c \in Cookies, t \in Presentable : RefreshVerify(s, c, t)

Spec == Init /\ [][Next]_vars

-----------------------------------------------------------------------------
(* The session flow with a store and a signer that can fail *)

NextFail ==
    \/ Tick
    \/ \E s \in Slots, e \in {UNDEF, "a@x"}, u \in LoginUserNames, p \in Passwords :
           LoginFindOne(s, e, u, p)
    \/ \E s \in Slots, f \in GenerateFailures : GenerateTokens(s, f)
    \/ \E s \in Slots, f \in SaveFailures : SaveRefreshToken(s, f)
    \/ \E s \in Slots : LoginRespond(s)
    \/ \E s \in Slots, uid \in Ids, d \in BOOLEAN : LogoutUser(s, uid, d)
    \/ \E s \in Slots, t \in Presentable : RefreshVerify(s, "object", t)

SpecFail == Init /\ [][NextFail]_vars

-----------------------------------------------------------------------------
(* getUserChannelProfile and getWatchHistory *)

ChannelNames == {UNDEF, " ", "alice", "Bob", "zed"}

\* no caller identity (req.user undefined)
NoViewer == 0

\* lines 365-380: the two $lookup stages, the subscription documents whose
\* field equals the account's _id
Subscribers(id) == SelectSeq(subscriptions, LAMBDA e : e.channel = id)
SubscribedTo(id) == SelectSeq(subscriptions, LAMBDA e : e.subscriber = id)

\* lines 381-410: $addFields and $project on one matched account
ChannelView(doc, viewer) ==
    [ _id |-> doc._id,
      fullName |-> doc.fullName,
      userName |-> doc.userName,
      subscribersCount |-> Len(Subscribers(doc._id)),
      channelsSubscribedToCount |-> Len(SubscribedTo(doc._id)),
      isSubscribed |-> \E k \in 1..Len(Subscribers(doc._id)) :
                          Subscribers(doc._id)[k].subscriber = viewer,
      avatar |-> doc.avatar,
      email |-> doc.email ]

\* lines 356-411: User.aggregate, the views of the accounts the $match keeps
ChannelAggregate(username, viewer) ==
    LET m == SelectSeq(users, LAMBDA d : d.userName = ToLowerCase(username))
    IN  [k \in 1..Len(m) |-> ChannelView(m[k], viewer)]

\* lines 349-420: the handler's second parameter is named rez, the body
\* answers through res, which nothing defines: a ReferenceError once a
\* channel is found
GetUserChannelProfile(s, username, viewer) ==
    /\ reqs[s].op = "idle"
    /\ LET m == {i \in Ids : username # UNDEF /\ users[i].userName = ToLowerCase(username)}
           r == [Idle EXCEPT !.op = "channelProfile", !.user = viewer,
                             !.channel = IF m = {} THEN 0 ELSE CHOOSE i \in m : \A j \in m : i <= j,
                             !.case = IF m = {} THEN "nochannel" ELSE "found"]
       IN  IF username = UNDEF \/ Trim(username) = ""
           THEN resp' = [Fail(s, r, 400) EXCEPT !.user = viewer]
           ELSE LET channel == ChannelAggregate(username, viewer)
                IN  IF Len(channel) = 0
                    THEN resp' = [Fail(s, r, 404) EXCEPT !.user = viewer]
                    ELSE resp' = [Fail(s, r, 500) EXCEPT !.user = viewer]
    /\ UNCHANGED <<users, now, reqs, revoked, readOnly>>

\* lines 438-451: the owner $lookup with its $project (fullName, userName and
\* a path spelt avater; _id stays unless excluded), then $first
OwnerView(id) ==
    LET m == SelectSeq(users, LAMBDA d : d._id = id)
    IN  [ _id |-> m[1]._id, fullName |-> m[1].fullName, userName |-> m[1].userName ]

\* lines 429-460: $lookup from videos with an array localField: the video
\* documents whose _id is among the references, once each, as the collection
\* yields them
WatchHistoryLookup(refs) ==
    LET m == SelectSeq(videos, LAMBDA v : \E k \in 1..Len(refs) : refs[k] = v._id)
    IN  [k \in 1..Len(m) |-> [ _id |-> m[k]._id, owner |-> OwnerView(m[k].owner) ]]

\* lines 422-470
GetWatchHistory(s, uid) ==
    /\ reqs[s].op = "idle"
    /\ uid \in Ids
    /\ LET r == [Idle EXCEPT !.op = "watchHistory", !.user = uid]
       IN  resp' = Answer(s, r, 200, WatchHistoryLookup(watchHistory[uid]))
    /\ UNCHANGED <<users, now, reqs, revoked, readOnly>>

\* the edges, videos and histories the other controllers can have stored
Edges == {[subscriber |-> a, channel |-> c] : a, c \in 1..Len(InitUsers)}

EdgeSeqs ==
    {q \in UNION {[1..n -> Edges] : n \in 0..MaxEdges} :
        \A j, k \in 1..Len(q) : j # k => q[j] # q[k]}

VideoIds == 1..MaxVideos

VideoOwner(v) == ((v - 1) % Len(InitUsers)) + 1

\* the videos of a set of ids, in the order of their insertion
VideoSeq(V) ==
    [k \in 1..Cardinality(V) |->
        LET v == CHOOSE x \in V : Cardinality({w \in V : w < x}) = k - 1
        IN  [ _id |-> v, owner |-> VideoOwner(v) ]]

Histories == UNION {[1..n -> VideoIds] : n \in 0..MaxHistory}

InitViews ==
    /\ users = InitUsers
    /\ now = 0
    /\ reqs = [s \in Slots |-> Idle]
    /\ resp = NoResp
    /\ revoked = NoToken
    /\ subscriptions \in EdgeSeqs
    /\ videos \in {VideoSeq(V) : V \in SUBSET VideoIds}
    /\ watchHistory \in {[i \in 1..Len(InitUsers) |-> IF i = 1 THEN h ELSE << >>] : h \in Histories}

NextViews ==
    \/ \E s \in Slots, u \in ChannelNames, v \in {NoViewer} \cup Ids :
           GetUserChannelProfile(s, u, v)
    \/ \E s \in Slots, uid \in Ids : GetWatchHistory(s, uid)

SpecViews == InitViews /\ [][NextViews]_vars

-----------------------------------------------------------------------------
(* The session flow next to password changes and profile updates *)

NextAcct ==
    \/ \E s \in Slots, e \in {"a@x"}, u \in LoginUserNames, p \in Passwords :
           LoginFindOne(s, e, u, p)
    \/ \E s \in Slots : GenerateTokens(s, "none")
    \/ \E s \in Slots : SaveRefreshToken(s, "none")
    \/ \E s \in Slots : LoginRespond(s)
    \/ \E s \in Slots, uid \in Ids, d \in BOOLEAN : LogoutUser(s, uid, d)
    \/ \E s \in Slots, t \in Presentable : RefreshVerify(s, "object", t)
    \/ \E s \in Slots, uid \in Ids, o \in Passwords, n \in NewPasswords :
           ChangePasswordFind(s, uid, o, n)
    \/ \E s \in Slots : ChangePasswordSave(s)
    \/ \E s \in Slots, uid \in Ids, e \in {UNDEF, "c@x"} :
           UpdateAccountDetails(s, uid, "carol", e, "C")

SpecAcct == Init /\ [][NextAcct]_vars

-----------------------------------------------------------------------------
(* Properties *)

Secret == {"password", "refreshToken"}

\* C1: a refresh that presents the token the account currently holds (the one
\* the login returned) succeeds, and its new long-lived token differs from
\* the one presented.
C1_RefreshRotates ==
    (resp.op = "refresh" /\ resp.case = "current")
        => (resp.status = 200 /\ resp.refreshToken # resp.token)

\* C2: of two refreshes in flight with the same persisted token, the one
\* whose rival has already succeeded fails with 401.
C2_OneConcurrentRefreshWins ==
    (resp.op = "refresh" /\ resp.rival) => resp.status = 401

\* C3: a refresh presenting the token that was persisted when logout ran is
\* answered 401 and never gets past the comparison with the stored token.
C3_RefreshAfterLogoutFails ==
    /\ \A s \in Slots : reqs[s].op = "refresh" => ~reqs[s].afterLogout
    /\ (resp.op = "refresh" /\ resp.afterLogout) => resp.status = 401

\* C4: once a login or refresh has been answered with the token the account
\* holds, no token issued before that one becomes the accepted one again:
\* a save never replaces the persisted token by one issued earlier.
C4_EarlierTokenStaysRejected ==
    [][\A s \in Slots :
          LET u == reqs[s].user
          IN  (/\ reqs[s].pc = "save"
               /\ reqs'[s].pc # "save"
               /\ Truthy(users[u].refreshToken)
               /\ \A o \in Slots : ~(reqs[o].pc = "select"
                                       /\ reqs[o].refreshToken = users[u].refreshToken))
              => users'[u].refreshToken.iat >= users[u].refreshToken.iat]_vars

\* C5: a register call with no blank field whose handle equals an existing
\* handle ignoring case, or whose email equals an existing email, is
\* answered 409 at once and creates no account.
C5_DuplicateRegisterConflicts ==
    /\ \A s \in Slots : reqs[s].op = "register" => reqs[s].case # "duplicate"
    /\ (resp.op = "register" /\ resp.case = "duplicate")
           => (resp.status = 409 /\ resp.created = 0)

\* C6: no two accounts share an email, and no two accounts have handles that
\* are equal ignoring case.
C6_UniqueHandlesAndEmails ==
    \A i, j \in Ids :
        i # j => /\ users[i].email # users[j].email
                 /\ ToLowerCase(users[i].userName) # ToLowerCase(users[j].userName)

\* C7: the user object of a successful login response has neither the
\* password field nor the refreshToken field.
C7_LoginViewStripped ==
    (resp.op = "login" /\ resp.status = 200) => (DOMAIN resp.data) \cap Secret = {}

\* C8: a register call with no blank field, an avatar file, and a handle and
\* email no account uses is answered only after the upload; when the upload
\* returned a reference the answer is 201, the call created exactly one
\* account, that account is the one returned, and the returned view has
\* neither the password nor the refreshToken field.
C8_FreshRegisterSucceeds ==
    (resp.op = "register" /\ resp.case = "fresh")
        => /\ resp.uploaded # "pending"
           /\ resp.uploaded = "yes"
                 => /\ resp.status = 201
                    /\ resp.created = 1
                    /\ resp.user \in Ids
                    /\ resp.data._id = resp.user
                    /\ (DOMAIN resp.data) \cap Secret = {}
                    /\ (DOMAIN users[resp.user]) \ (DOMAIN resp.data) = Secret

C8_Witness ==
    /\ resp.op = "register"
    /\ resp.case = "fresh"
    /\ resp.uploaded = "yes"
    /\ resp.status = 201
    /\ Len(users) = 2

\* C9: a refresh with no token, with a token that fails verification, or with
\* a token that differs from the persisted one is answered 401.
C9_RefreshFailuresUnauthorized ==
    (resp.op = "refresh" /\ resp.case \in {"absent", "invalid", "stale"})
        => resp.status = 401

\* C10: a login whose identifier matches no account is answered 404, one
\* whose password fits no matching account is answered 401; neither gets as
\* far as issuing tokens, the response carries none, and the step that
\* answers leaves every account as it was.
C10_LoginFailures ==
    /\ [](/\ \A s \in Slots :
                reqs[s].op = "login" => reqs[s].case \notin {"nomatch", "badpassword"}
          /\ (resp.op = "login" /\ resp.case = "nomatch")
                => (resp.status = 404 /\ resp.accessToken = NoToken
                                      /\ resp.refreshToken = NoToken)
          /\ (resp.op = "login" /\ resp.case = "badpassword")
                => (resp.status = 401 /\ resp.accessToken = NoToken
                                      /\ resp.refreshToken = NoToken))
    /\ [][(resp'.op = "login" /\ resp'.status \in {401, 404}) => users' = users]_vars

C10_Witness ==
    /\ resp.op = "login"
    /\ resp.case = "badpassword"
    /\ resp.status = 401
    /\ \E i \in Ids : Truthy(users[i].refreshToken)

\* C11: a register call with a blank field is answered 400, and so is one
\* with no blank field, an unused handle and email and no avatar file; a
\* register call that is not answered 201 has created no account.
C11_RegisterRejectsBlankAndNoAvatar ==
    resp.op = "register"
        => /\ resp.case \in {"blank", "noavatar"} => resp.status = 400
           /\ resp.status # 201 => resp.created = 0

\* C12: in the state logout leaves, the account's persisted long-lived token
\* is cleared, whatever it was before.
C12_LogoutClearsToken ==
    resp.op = "logout" => ~Truthy(users[resp.user].refreshToken)

\* C13: every logout of an authenticated account is answered 200.
C13_LogoutAnswersOk ==
    resp.op = "logout" => resp.status = 200

\* C18: a login or refresh whose lookup, signing or save failed is answered
\* with an error and without tokens, and the step that fails leaves every
\* account as it was; a token pair reaches a caller only in a 200 answer of
\* a request whose save has been applied.
C18_FailedPairWriteLeavesNoTrace ==
    /\ [](resp.op \in {"login", "refresh"}
            => /\ resp.failure # "none"
                    => /\ resp.status = (IF resp.op = "refresh" THEN 401 ELSE 500)
                       /\ resp.accessToken = NoToken
                       /\ resp.refreshToken = NoToken
                       /\ resp.data = NoView
               /\ (Truthy(resp.refreshToken) \/ Truthy(resp.accessToken))
                    => (resp.status = 200 /\ resp.saved))
    /\ [][resp'.failure # "none" => users' = users]_vars

C18_Witness ==
    /\ resp.op = "refresh"
    /\ resp.failure = "persist"
    /\ resp.status = 401
    /\ \E i \in Ids : Truthy(users[i].refreshToken)

\* C20: every account's persisted long-lived token is empty or a long-lived
\* token signed for that very account; a successful refresh answers with a
\* token of the account the presented token names, and its save changes no
\* other account.
C20_TokenStaysWithItsAccount ==
    /\ [](/\ \A i \in Ids :
                Truthy(users[i].refreshToken)
                    => /\ users[i].refreshToken.kind = "refresh"
                       /\ users[i].refreshToken.sub = i
                       /\ users[i].refreshToken.iat \in 0..now
          /\ (resp.op = "refresh" /\ resp.status = 200)
                => /\ resp.user = resp.token.sub
                   /\ resp.refreshToken.sub = resp.token.sub)
    /\ [][\A s \in Slots :
            (reqs[s].op = "refresh" /\ reqs[s].pc = "save" /\ reqs'[s].pc # "save")
                => \A i \in Ids : i # reqs[s].token.sub => users'[i] = users[i]]_vars

C20_Witness ==
    /\ resp.op = "refresh"
    /\ resp.status = 200
    /\ \A i \in Ids : Truthy(users[i].refreshToken)

\* C14 (as the code has it): changePassword is answered 400 when oldPassword
\* does not match the stored password and then writes nothing; when it
\* matches, the answer is 200 and the stored password is the hash of
\* newPassword, so the password check of login accepts newPassword and
\* rejects a different oldPassword.
C14_ChangePasswordReplacesHash ==
    /\ [](resp.op = "changePassword"
            => /\ resp.case = "wrongold" => resp.status = 400
               /\ resp.case = "rightold" => resp.status = 200
               /\ resp.status = 200
                    => /\ isPasswordCorrect(users[resp.user], resp.password)
                       /\ resp.oldPassword # resp.password
                            => ~isPasswordCorrect(users[resp.user], resp.oldPassword))
    /\ [][(resp'.op = "changePassword" /\ resp'.status # 200) => users' = users]_vars

C14_Witness ==
    /\ resp.op = "changePassword"
    /\ resp.status = 200
    /\ resp.oldPassword # resp.password
    /\ users[resp.user].password = HashPassword(resp.password)

\* C14 as stated: a changePassword whose oldPassword does not match the
\* stored password fails with Unauthorized (401).
C14_WrongOldPasswordUnauthorized ==
    (resp.op = "changePassword" /\ resp.case = "wrongold") => resp.status = 401

\* a step of login, refresh or logout
TokenFlowStep ==
    \/ resp'.op \in {"login", "refresh", "logout"}
    \/ \E s \in Slots : reqs'[s] # reqs[s] /\ reqs'[s].op \in {"login", "refresh"}

\* a step of changePassword
ChangePasswordStep ==
    \/ resp'.op = "changePassword"
    \/ \E s \in Slots : reqs'[s] # reqs[s] /\ reqs'[s].op = "changePassword"

\* C17: a step of login, refresh or logout changes nothing of any account but
\* the persisted long-lived token, and that only of the account it acts for,
\* also while password changes and profile updates are under way.
C17_TokenFlowWritesOnlyTheToken ==
    [][TokenFlowStep
        => \A i \in Ids :
             /\ Select(users'[i], {"refreshToken"}) = Select(users[i], {"refreshToken"})
             /\ users'[i] # users[i]
                  => \/ resp'.op = "logout" /\ resp'.user = i
                     \/ \E s \in Slots : /\ reqs[s].pc = "save"
                                          /\ reqs'[s].pc # "save"
                                          /\ reqs[s].user = i]_vars

C17_Witness ==
    /\ resp.op = "refresh"
    /\ resp.status = 200
    /\ users[resp.user].password # InitUsers[resp.user].password
    /\ users[resp.user].userName = "carol"
    /\ users[resp.user].refreshToken = resp.refreshToken

\* C19: a step of changePassword leaves every persisted long-lived token as
\* it was, so a token refresh accepted before the change it accepts after.
C19_PasswordChangeKeepsSession ==
    [][ChangePasswordStep
        => /\ \A i \in Ids : users'[i].refreshToken = users[i].refreshToken
           /\ \A t \in Presentable :
                RefreshCase(t) = "current" => RefreshCase(t)' = "current"]_vars

C19_Witness ==
    /\ resp.op = "changePassword"
    /\ resp.status = 200
    /\ resp.oldPassword # resp.password
    /\ RefreshCase(users[resp.user].refreshToken) = "current"

\* C15: for a channel found by its handle, channelProfile answers 200 with
\* subscribersCount the number of accounts that have an edge to the channel
\* and isSubscribed true exactly when the viewer is one of them.
C15_ChannelProfileCounts ==
    (resp.op = "channelProfile" /\ resp.case = "found")
        => LET S == {a \in Ids : \E k \in 1..Len(subscriptions) :
                        subscriptions[k] = [subscriber |-> a, channel |-> resp.channel]}
           IN  /\ resp.status = 200
               /\ resp.data.subscribersCount = Cardinality(S)
               /\ resp.data.isSubscribed = (resp.user \in S)

\* C16: watchHistory answers with the videos of the account's references
\* that still exist, in the order of the references, each with an owner made
\* of exactly userName, fullName and avatar.
C16_WatchHistoryOrderedAndProjected ==
    resp.op = "watchHistory"
        => LET exists(v) == \E k \in 1..Len(videos) : videos[k]._id = v
               kept == SelectSeq(watchHistory[resp.user], exists)
           IN  /\ resp.status = 200
               /\ [k \in 1..Len(resp.data) |-> resp.data[k]._id] = kept
               /\ \A k \in 1..Len(resp.data) :
                    DOMAIN resp.data[k].owner = {"userName", "fullName", "avatar"}

====
